---------------------------- MODULE Spec2Model ----------------------------
(***************************************************************************)
(* Model of storagemarket/types: the address resolver ToURL, the transfer  *)
(* descriptor Transfer.Host and the deal-status envelope.                  *)
(*                                                                         *)
(* A Go string is modelled as a sequence of lexemes (each lexeme a TLA+    *)
(* string): "[2001:db8::1]:8080" is <<"[", "2001:db8::1", "]", ":",        *)
(* "8080">>.  Concatenation is \o, the empty string is <<>>.               *)
(***************************************************************************)
EXTENDS Integers, Sequences, FiniteSets, TLC

VARIABLES
    t,      \* the Transfer the callers share (receiver of Host)
    ma,     \* the address stack the callers share (argument of ToURL)
    pc,     \* pc[c]: position of caller c
    loc,    \* loc[c]: locals and return values of caller c
    deals,  \* the deal-state owner's record of each deal
    req,    \* the DealStatusRequest being served
    resp    \* the DealStatusResponse produced for it

vars == <<t, ma, pc, loc, deals, req, resp>>

-----------------------------------------------------------------------------
(* Bounds *)

MaxMarkers == 3     \* application-layer entries after the network prefix
NumCallers == 2     \* concurrent callers of Host / ToURL

-----------------------------------------------------------------------------
(* multiaddr protocol codes *)

P_IP4     == 4
P_TCP     == 6
P_DNS     == 53
P_DNS4    == 54
P_DNS6    == 55
P_IP6     == 41
P_IP6ZONE == 42
P_UDP     == 273
P_UNIX    == 400
P_P2P     == 421
P_HTTPS   == 443
P_TLS     == 448
P_WS      == 477
P_WSS     == 478
P_HTTP    == 480
P_HTTPATH == 3146240    \* 0x300200, the URL-escaped path entry

Comp(code, value) == [code |-> code, value |-> value]

-----------------------------------------------------------------------------
(* errors and results *)

NoErr == [class |-> "nil", url |-> <<>>, cause |-> "nil"]

Err(class, url, cause) == [class |-> class, url |-> url, cause |-> cause]

NilURL == [isNil |-> TRUE, Scheme |-> "", Host |-> <<>>, Path |-> <<>>]

URL(scheme, host, path) ==
    [isNil |-> FALSE, Scheme |-> scheme, Host |-> host, Path |-> path]

-----------------------------------------------------------------------------
(* net.IP: ParseIP, To4, Equal.  An IP is a sequence of 4 or 16 bytes, nil *)
(* is the empty sequence.                                                  *)

NilIP == <<>>

v4InV6Prefix == <<0, 0, 0, 0, 0, 0, 0, 0, 0, 0, 255, 255>>

\* The textual IP literals of the model and the 16 bytes ParseIP gives them.
IPLiterals ==
    [lit \in {"1.2.3.4", "2001:db8::1", "::ffff:1.2.3.4"} |->
        CASE lit = "1.2.3.4"        -> v4InV6Prefix \o <<1, 2, 3, 4>>
          [] lit = "2001:db8::1"    -> <<32, 1, 13, 184, 0, 0, 0, 0, 0, 0, 0, 0, 0, 0, 0, 1>>
          [] lit = "::ffff:1.2.3.4" -> v4InV6Prefix \o <<1, 2, 3, 4>>]

\* net.ParseIP: nil unless the whole string is one IP literal (brackets, a
\* port or a zone make it fail).
ParseIP(s) ==
    IF Len(s) = 1 /\ s[1] \in DOMAIN IPLiterals THEN IPLiterals[s[1]] ELSE NilIP

To4(ip) ==
    IF Len(ip) = 4 THEN ip
    ELSE IF Len(ip) = 16 /\ SubSeq(ip, 1, 12) = v4InV6Prefix THEN SubSeq(ip, 13, 16)
    ELSE NilIP

\* net.IP.Equal: an IPv4 address and the same address in IPv6 form are equal.
IPEqual(ip, x) ==
    IF Len(ip) = Len(x) THEN ip = x
    ELSE IF Len(ip) = 4 /\ Len(x) = 16
        THEN SubSeq(x, 1, 12) = v4InV6Prefix /\ ip = SubSeq(x, 13, 16)
    ELSE IF Len(ip) = 16 /\ Len(x) = 4
        THEN SubSeq(ip, 1, 12) = v4InV6Prefix /\ SubSeq(ip, 13, 16) = x
    ELSE FALSE

-----------------------------------------------------------------------------
(* manet.DialArgs *)

Ports == {443, 8080}

Itoa(n) == ToString(n)

\* binary.BigEndian.Uint16(c.RawValue()) of a tcp/udp component
Uint16(c) == CHOOSE n \in Ports : <<Itoa(n)>> = c.value

DialInit ==
    [zone |-> <<>>, network |-> "", ip |-> <<>>, port |-> 0,
     hostname |-> FALSE, err |-> FALSE]

\* One call of the ForEach callback of dialArgComponents on component c in
\* state d: the new state and whether the iteration goes on.
DialVisit(d, c) ==
    CASE d.network = "" ->
            CASE c.code = P_IP6ZONE ->
                    IF d.zone # <<>>
                    THEN [d |-> [d EXCEPT !.err = TRUE], more |-> FALSE]
                    ELSE [d |-> [d EXCEPT !.zone = c.value], more |-> TRUE]
              [] c.code = P_IP6 ->
                    [d |-> [d EXCEPT !.network = "ip6", !.ip = c.value], more |-> TRUE]
              [] c.code = P_IP4 ->
                    IF d.zone # <<>>
                    THEN [d |-> [d EXCEPT !.err = TRUE], more |-> FALSE]
                    ELSE [d |-> [d EXCEPT !.network = "ip4", !.ip = c.value], more |-> TRUE]
              [] c.code = P_DNS ->
                    [d |-> [d EXCEPT !.network = "ip", !.hostname = TRUE, !.ip = c.value],
                     more |-> TRUE]
              [] c.code = P_DNS4 ->
                    [d |-> [d EXCEPT !.network = "ip4", !.hostname = TRUE, !.ip = c.value],
                     more |-> TRUE]
              [] c.code = P_DNS6 ->
                    [d |-> [d EXCEPT !.network = "ip6", !.hostname = TRUE, !.ip = c.value],
                     more |-> TRUE]
              [] c.code = P_UNIX ->
                    [d |-> [d EXCEPT !.network = "unix", !.ip = c.value], more |-> FALSE]
              [] OTHER -> [d |-> d, more |-> FALSE]
      [] d.network \in {"ip", "ip4", "ip6"} ->
            LET suffix == CASE d.network = "ip"  -> ""
                            [] d.network = "ip4" -> "4"
                            [] d.network = "ip6" -> "6"
            IN  CASE c.code = P_UDP ->
                        [d |-> [d EXCEPT !.network = "udp" \o suffix, !.port = Uint16(c)],
                         more |-> FALSE]
                  [] c.code = P_TCP ->
                        [d |-> [d EXCEPT !.network = "tcp" \o suffix, !.port = Uint16(c)],
                         more |-> FALSE]
                  [] OTHER -> [d |-> d, more |-> FALSE]
      [] OTHER -> [d |-> d, more |-> FALSE]

RECURSIVE DialFold(_, _, _)
DialFold(stack, i, d) ==
    IF i > Len(stack) THEN d
    ELSE LET r == DialVisit(d, stack[i])
         IN  IF r.more THEN DialFold(stack, i + 1, r.d) ELSE r.d

dialArgComponents(stack) == DialFold(stack, 1, DialInit)

NotThinWaist == Err("AddressResolutionError", <<>>, "not a 'thin waist' address")

\* DialArgs: the host string of the dial target, or an error.
DialArgs(stack) ==
    LET d    == dialArgComponents(stack)
        port == <<":", Itoa(d.port)>>
        zip  == IF d.zone # <<>> THEN d.ip \o <<"%">> \o d.zone ELSE d.ip
    IN  IF d.err
        THEN [host |-> <<>>, err |-> Err("AddressResolutionError", <<>>, "bad zone")]
        ELSE IF d.hostname
        THEN IF d.network \in {"ip", "ip4", "ip6"}
             THEN [host |-> d.ip, err |-> NoErr]
             ELSE [host |-> d.ip \o port, err |-> NoErr]
        ELSE CASE d.network = "ip6" -> [host |-> zip, err |-> NoErr]
               [] d.network = "ip4" -> [host |-> d.ip, err |-> NoErr]
               [] d.network \in {"tcp4", "udp4"} -> [host |-> d.ip \o port, err |-> NoErr]
               [] d.network \in {"tcp6", "udp6"} ->
                      [host |-> <<"[">> \o zip \o <<"]">> \o port, err |-> NoErr]
               [] d.network = "unix" -> [host |-> d.ip, err |-> NoErr]
               [] OTHER -> [host |-> <<>>, err |-> NotThinWaist]

-----------------------------------------------------------------------------
(* ToURL *)

\* fmt.Sprintf("[%s]", host) when host parses as an IP that is not equal to
\* its own To4 form.
BracketHost(host) ==
    LET ip == ParseIP(host)
    IN  IF ip # NilIP /\ ~IPEqual(To4(ip), ip)
        THEN <<"[">> \o host \o <<"]">>
        ELSE host

\* ma.ValueForProtocol(code): the value of the first component with the code
ValueForProtocol(stack, code) ==
    LET i == CHOOSE j \in 1..Len(stack) :
                 /\ stack[j].code = code
                 /\ \A k \in 1..(j - 1) : stack[k].code # code
    IN  stack[i].value

\* pm: protocol code -> value, for every protocol of the stack
ProtoMap(stack) ==
    [code \in {stack[i].code : i \in 1..Len(stack)} |-> ValueForProtocol(stack, code)]

\* the /tls/ws combination forgotten
SchemeOfNoTlsWs(pm) ==
    IF P_HTTPS \in DOMAIN pm THEN "https"
    ELSE IF P_HTTP \in DOMAIN pm
        THEN (IF P_TLS \in DOMAIN pm THEN "https" ELSE "http")
    ELSE IF P_WSS \in DOMAIN pm THEN "wss"
    ELSE IF P_WS \in DOMAIN pm THEN "ws"
    ELSE "http"

SchemeOf(pm) ==
    IF P_HTTPS \in DOMAIN pm THEN "https"
    ELSE IF P_HTTP \in DOMAIN pm
        THEN (IF P_TLS \in DOMAIN pm THEN "https" ELSE "http")
    ELSE IF P_WSS \in DOMAIN pm THEN "wss"
    ELSE IF P_WS \in DOMAIN pm
        THEN (IF P_TLS \in DOMAIN pm THEN "wss" ELSE "ws")
    ELSE "http"

\* percent-escapes: the valid ones decode to a byte, the others are errors
EscapeTable == [e \in {"%2F", "%20"} |-> IF e = "%2F" THEN "/" ELSE " "]

IsEscape(x) == x \in DOMAIN EscapeTable \/ x \in {"%zz", "%"}

\* url.PathUnescape
PathUnescape(s) ==
    IF \E i \in 1..Len(s) : IsEscape(s[i]) /\ s[i] \notin DOMAIN EscapeTable
    THEN [s |-> <<>>, ok |-> FALSE]
    ELSE [s |-> [i \in 1..Len(s) |->
                    IF s[i] \in DOMAIN EscapeTable THEN EscapeTable[s[i]] ELSE s[i]],
          ok |-> TRUE]

\* the decode error ignored and the raw value kept
PathOfKeepRaw(pm) ==
    IF P_HTTPATH \in DOMAIN pm
    THEN LET r == PathUnescape(pm[P_HTTPATH])
         IN  IF r.ok THEN r.s ELSE pm[P_HTTPATH]
    ELSE <<>>

PathOf(pm) ==
    IF P_HTTPATH \in DOMAIN pm
    THEN LET r == PathUnescape(pm[P_HTTPATH])
         IN  IF r.ok THEN r.s ELSE <<>>
    ELSE <<>>

ToURL(stack) ==
    LET da == DialArgs(stack)
    IN  IF da.err # NoErr
        THEN [url |-> NilURL, err |-> da.err]
        ELSE LET pm == ProtoMap(stack)
             IN  [url |-> URL(SchemeOf(pm), BracketHost(da.host), PathOf(pm)),
                  err |-> NoErr]

-----------------------------------------------------------------------------
(* encoding/json on transport/types.HttpRequest {URL string; Headers       *)
(* map[string]string}.  A JSON text is a sequence of tokens [k, v]: k is   *)
(* "punct" (v one of { } : , null or a number) or "str" (v the escaped     *)
(* body of a string literal).                                              *)

Punct(x) == [k |-> "punct", v |-> <<x>>]

JStr(body) == [k |-> "str", v |-> body]

\* json.Marshal writes & inside a string literal as a \u escape
JEscape(s) == [i \in 1..Len(s) |-> IF s[i] = "&" THEN "\\u0026" ELSE s[i]]

JBadEscapes == {"\\x"}

JUnescape(s) == [i \in 1..Len(s) |-> IF s[i] = "\\u0026" THEN "&" ELSE s[i]]

\* json.Marshal of an HttpRequest; headers is <<>> (a nil map, null) or a
\* sequence of <<key, value>> pairs
MarshalHeaders(headers) ==
    IF headers = <<>> THEN <<Punct("null")>>
    ELSE <<Punct("{"), JStr(JEscape(headers[1][1])), Punct(":"),
           JStr(JEscape(headers[1][2])), Punct("}")>>

Marshal(url, headers) ==
    <<Punct("{"), JStr(<<"URL">>), Punct(":"), JStr(JEscape(url)), Punct(","),
      JStr(<<"Headers">>), Punct(":")>> \o MarshalHeaders(headers) \o <<Punct("}")>>

JNumbers == {"5"}

JFail == [ok |-> FALSE, next |-> 0, type |-> "", str |-> <<>>, members |-> <<>>]

JVal(next, type, str, members) ==
    [ok |-> TRUE, next |-> next, type |-> type, str |-> str, members |-> members]

\* The scanner: one JSON value starting at token i.  An object's members are
\* <<key, value>> pairs; nesting is limited to the depth the record needs.
RECURSIVE JParseValue(_, _, _)
RECURSIVE JParseMembers(_, _, _, _)
JParseValue(toks, i, depth) ==
    IF i > Len(toks) THEN JFail
    ELSE LET tok == toks[i]
         IN  IF tok.k = "str"
             THEN IF \E j \in 1..Len(tok.v) : tok.v[j] \in JBadEscapes
                  THEN JFail
                  ELSE JVal(i + 1, "string", JUnescape(tok.v), <<>>)
             ELSE IF tok.v = <<"null">> THEN JVal(i + 1, "null", <<>>, <<>>)
             ELSE IF tok.v[1] \in JNumbers THEN JVal(i + 1, "number", tok.v, <<>>)
             ELSE IF tok.v = <<"{">> /\ depth > 0
                  THEN IF i + 1 <= Len(toks) /\ toks[i + 1] = Punct("}")
                       THEN JVal(i + 2, "object", <<>>, <<>>)
                       ELSE JParseMembers(toks, i + 1, depth, <<>>)
             ELSE JFail

JParseMembers(toks, i, depth, acc) ==
    IF i + 1 > Len(toks) \/ toks[i].k # "str" \/ toks[i + 1] # Punct(":")
       \/ (\E j \in 1..Len(toks[i].v) : toks[i].v[j] \in JBadEscapes)
    THEN JFail
    ELSE LET val == JParseValue(toks, i + 2, depth - 1)
             mem == Append(acc, <<JUnescape(toks[i].v), val>>)
         IN  IF ~val.ok \/ val.next > Len(toks) THEN JFail
             ELSE IF toks[val.next] = Punct("}")
                  THEN JVal(val.next + 1, "object", <<>>, mem)
             ELSE IF toks[val.next] = Punct(",")
                  THEN JParseMembers(toks, val.next + 1, depth, mem)
             ELSE JFail

JDepth == 2

\* strings.EqualFold on the field names of the record
FoldKey(key) ==
    IF key \in {<<"URL">>, <<"url">>, <<"Url">>} THEN "URL"
    ELSE IF key \in {<<"Headers">>, <<"headers">>} THEN "Headers"
    ELSE "other"

\* Is the decoded value assignable to the field?
FieldFits(field, val) ==
    CASE val.type = "null" -> TRUE
      [] field = "URL" -> val.type = "string"
      [] field = "Headers" ->
            /\ val.type = "object"
            /\ \A j \in 1..Len(val.members) : val.members[j][2].type \in {"string", "null"}
      [] OTHER -> TRUE

\* The URL a decoded object leaves in tInfo: the last non-null URL member,
\* the zero value "" when there is none.
RECURSIVE URLField(_, _)
URLField(members, j) ==
    IF j = 0 THEN <<>>
    ELSE IF FoldKey(members[j][1]) = "URL" /\ members[j][2].type = "string"
         THEN members[j][2].str
         ELSE URLField(members, j - 1)

\* a decoder that demands the URL member
UnmarshalRequireURL(params) ==
    LET v == JParseValue(params, 1, JDepth)
    IN  IF ~v.ok \/ v.next # Len(params) + 1
        THEN [ok |-> FALSE, URL |-> <<>>, cause |-> "json: syntax error"]
        ELSE IF v.type # "object"
             \/ (\E j \in 1..Len(v.members) :
                    ~FieldFits(FoldKey(v.members[j][1]), v.members[j][2]))
             \/ URLField(v.members, Len(v.members)) = <<>>
        THEN [ok |-> FALSE, URL |-> <<>>, cause |-> "json: cannot unmarshal"]
        ELSE [ok |-> TRUE, URL |-> URLField(v.members, Len(v.members)), cause |-> "nil"]

\* json.Unmarshal(params, &HttpRequest{}): a syntax error when the bytes are
\* not one JSON value, a type error when a member does not fit its field.
Unmarshal(params) ==
    LET v == JParseValue(params, 1, JDepth)
    IN  IF ~v.ok \/ v.next # Len(params) + 1
        THEN [ok |-> FALSE, URL |-> <<>>, cause |-> "json: syntax error"]
        ELSE IF v.type = "null"
        THEN [ok |-> TRUE, URL |-> <<>>, cause |-> "nil"]
        ELSE IF v.type # "object"
             \/ \E j \in 1..Len(v.members) :
                    ~FieldFits(FoldKey(v.members[j][1]), v.members[j][2])
        THEN [ok |-> FALSE, URL |-> <<>>, cause |-> "json: cannot unmarshal"]
        ELSE [ok |-> TRUE, URL |-> URLField(v.members, Len(v.members)), cause |-> "nil"]

-----------------------------------------------------------------------------
(* net/url.Parse, on a string given as lexemes: scheme words, ":", "//",   *)
(* "/", "@", "?", "[", "]", host words, port words, path segments and      *)
(* percent-escapes.                                                        *)

\* first and last index of lexeme x in s, 0 when absent
IndexOf(s, x) ==
    IF \E i \in 1..Len(s) : s[i] = x
    THEN CHOOSE i \in 1..Len(s) : s[i] = x /\ \A j \in 1..(i - 1) : s[j] # x
    ELSE 0

LastIndexOf(s, x) ==
    IF \E i \in 1..Len(s) : s[i] = x
    THEN CHOOSE i \in 1..Len(s) : s[i] = x /\ \A j \in (i + 1)..Len(s) : s[j] # x
    ELSE 0

\* index of the first "/" or "//" of s at or after position from, Len(s)+1
\* when there is none
NextSlash(s, from) ==
    IF \E i \in from..Len(s) : s[i] \in {"/", "//"}
    THEN CHOOSE i \in from..Len(s) :
             s[i] \in {"/", "//"} /\ \A j \in from..(i - 1) : s[j] \notin {"/", "//"}
    ELSE Len(s) + 1

\* words made of scheme characters only, starting with a letter
SchemeWords == {"http", "https", "HTTP", "libp2p", "LIBP2P", "ftp", "example.com"}

ToLower(w) ==
    CASE w = "HTTP"   -> "http"
      [] w = "LIBP2P" -> "libp2p"
      [] OTHER        -> w

DigitWords == {Itoa(n) : n \in Ports}

HasBadEscape(s) ==
    \E i \in 1..Len(s) : IsEscape(s[i]) /\ s[i] \notin DOMAIN EscapeTable

URLFail(cause) ==
    [ok |-> FALSE, Scheme |-> "", Host |-> <<>>, Path |-> <<>>, cause |-> cause]

URLOk(scheme, host, path) ==
    [ok |-> TRUE, Scheme |-> scheme, Host |-> host, Path |-> path, cause |-> "nil"]

validOptionalPort(p) == p = <<>> \/ p = <<":">> \/ (Len(p) = 2 /\ p[1] = ":" /\ p[2] \in DigitWords)

\* url.parseHost: "" when the host is accepted, the error otherwise
parseHostError(host) ==
    IF Len(host) > 0 /\ host[1] = "["
    THEN LET k == LastIndexOf(host, "]")
         IN  IF k = 0 THEN "missing ']' in host"
             ELSE IF ~validOptionalPort(SubSeq(host, k + 1, Len(host)))
                  THEN "invalid port after host"
             ELSE ""
    ELSE LET i == LastIndexOf(host, ":")
         IN  IF i # 0 /\ ~validOptionalPort(SubSeq(host, i, Len(host)))
             THEN "invalid port after host"
             ELSE IF HasBadEscape(host) THEN "invalid URL escape"
             ELSE IF \E j \in 1..Len(host) : host[j] = " "
                  THEN "invalid character in host name"
             ELSE ""

\* the userinfo left in the host
AuthorityHostKeepUser(auth) == auth

\* url.parseAuthority: the host (with its port) after the last "@"
AuthorityHost(auth) == SubSeq(auth, LastIndexOf(auth, "@") + 1, Len(auth))

URLParse(s) ==
    IF Len(s) >= 1 /\ s[1] = ":" THEN URLFail("missing protocol scheme")
    ELSE
    LET hasScheme == Len(s) >= 2 /\ s[1] \in SchemeWords /\ s[2] = ":"
        scheme    == IF hasScheme THEN ToLower(s[1]) ELSE ""
        afterSch  == IF hasScheme THEN SubSeq(s, 3, Len(s)) ELSE s
        q         == IndexOf(afterSch, "?")
        rest      == IF q = 0 THEN afterSch ELSE SubSeq(afterSch, 1, q - 1)
        rooted    == Len(rest) > 0 /\ rest[1] \in {"/", "//"}
    IN  IF ~rooted /\ scheme # ""
        THEN URLOk(scheme, <<>>, <<>>)        \* an opaque URL
        ELSE IF ~rooted /\ IndexOf(SubSeq(rest, 1, NextSlash(rest, 1) - 1), ":") # 0
        THEN URLFail("first path segment in URL cannot contain colon")
        ELSE IF rooted /\ rest[1] = "//"
        THEN LET j    == NextSlash(rest, 2)
                 auth == SubSeq(rest, 2, j - 1)
                 host == AuthorityHost(auth)
                 path == SubSeq(rest, j, Len(rest))
             IN  IF parseHostError(host) # "" THEN URLFail(parseHostError(host))
                 ELSE IF HasBadEscape(path) THEN URLFail("invalid URL escape")
                 ELSE URLOk(scheme, host, path)
        ELSE IF HasBadEscape(rest) THEN URLFail("invalid URL escape")
        ELSE URLOk(scheme, <<>>, rest)

-----------------------------------------------------------------------------
(* The multiaddr text form and util.ParseUrl (transport/httptransport/util) *)

Libp2pScheme == "libp2p"

ProtoNames ==
    [n \in {"ip4", "tcp", "dns", "dns4", "dns6", "ip6", "ip6zone", "udp", "p2p",
            "https", "tls", "ws", "wss", "http", "httpath"} |->
        CASE n = "ip4"     -> [code |-> P_IP4,     sized |-> TRUE]
          [] n = "tcp"     -> [code |-> P_TCP,     sized |-> TRUE]
          [] n = "dns"     -> [code |-> P_DNS,     sized |-> TRUE]
          [] n = "dns4"    -> [code |-> P_DNS4,    sized |-> TRUE]
          [] n = "dns6"    -> [code |-> P_DNS6,    sized |-> TRUE]
          [] n = "ip6"     -> [code |-> P_IP6,     sized |-> TRUE]
          [] n = "ip6zone" -> [code |-> P_IP6ZONE, sized |-> TRUE]
          [] n = "udp"     -> [code |-> P_UDP,     sized |-> TRUE]
          [] n = "p2p"     -> [code |-> P_P2P,     sized |-> TRUE]
          [] n = "httpath" -> [code |-> P_HTTPATH, sized |-> TRUE]
          [] n = "https"   -> [code |-> P_HTTPS,   sized |-> FALSE]
          [] n = "tls"     -> [code |-> P_TLS,     sized |-> FALSE]
          [] n = "ws"      -> [code |-> P_WS,      sized |-> FALSE]
          [] n = "wss"     -> [code |-> P_WSS,     sized |-> FALSE]
          [] n = "http"    -> [code |-> P_HTTP,    sized |-> FALSE]]

NameOf(code) == CHOOSE n \in DOMAIN ProtoNames : ProtoNames[n].code = code

PeerIDs == {"QmPeer"}

\* the transcoder's check of a component value given as text
ValidValue(code, v) ==
    CASE code = P_IP4 -> ParseIP(v) # NilIP /\ To4(ParseIP(v)) # NilIP
      [] code = P_IP6 -> ParseIP(v) # NilIP
      [] code \in {P_TCP, P_UDP} -> Len(v) = 1 /\ v[1] \in DigitWords
      [] code = P_P2P -> Len(v) = 1 /\ v[1] \in PeerIDs
      [] OTHER -> v # <<>>

\* multiaddr.String: "/name" or "/name/value" for each component
RECURSIVE MaString(_)
MaString(stack) ==
    IF stack = <<>> THEN <<>>
    ELSE LET c == Head(stack)
         IN  <<"/", NameOf(c.code)>>
             \o (IF ProtoNames[NameOf(c.code)].sized THEN <<"/">> \o c.value ELSE <<>>)
             \o MaString(Tail(stack))

\* strings.Split(s, "/"): the parts between the "/" lexemes
RECURSIVE SplitSlash(_, _, _)
SplitSlash(s, i, cur) ==
    IF i > Len(s) THEN <<cur>>
    ELSE IF s[i] = "/" THEN <<cur>> \o SplitSlash(s, i + 1, <<>>)
    ELSE SplitSlash(s, i + 1, Append(cur, s[i]))

MaFail == [ok |-> FALSE, stack |-> <<>>]

\* multiaddr.NewMultiaddr on the parts after the leading "/"
RECURSIVE MaParseParts(_, _, _)
MaParseParts(parts, i, acc) ==
    IF i > Len(parts) THEN [ok |-> TRUE, stack |-> acc]
    ELSE IF Len(parts[i]) # 1 \/ parts[i][1] \notin DOMAIN ProtoNames THEN MaFail
    ELSE LET p == ProtoNames[parts[i][1]]
         IN  IF ~p.sized THEN MaParseParts(parts, i + 1, Append(acc, Comp(p.code, <<>>)))
             ELSE IF i + 1 > Len(parts) \/ ~ValidValue(p.code, parts[i + 1]) THEN MaFail
             ELSE MaParseParts(parts, i + 2, Append(acc, Comp(p.code, parts[i + 1])))

NewMultiaddr(s) ==
    LET parts == SplitSlash(s, 1, <<>>)
    IN  IF Len(s) = 0 \/ s[1] # "/" \/ Len(parts) < 2 THEN MaFail
        ELSE MaParseParts(parts, 2, <<>>)

TransportUrl(scheme, url, stack) == [Scheme |-> scheme, Url |-> url, Multiaddr |-> stack]

ParseFail(cause) == [ok |-> FALSE, u |-> TransportUrl("", <<>>, <<>>), cause |-> cause]

\* util.parseLibp2pUrl: strip "libp2p://", read the peer address, keep the
\* one transport address in front of the /p2p component
parseLibp2pUrl(urlStr) ==
    IF ~(Len(urlStr) >= 3 /\ SubSeq(urlStr, 1, 3) = <<Libp2pScheme, ":", "//">>)
    THEN ParseFail("libp2p URL must start with prefix")
    ELSE LET m == NewMultiaddr(SubSeq(urlStr, 4, Len(urlStr)))
             n == Len(m.stack)
         IN  IF ~m.ok \/ n = 0 \/ m.stack[n].code # P_P2P
             THEN ParseFail("parsing address info from url")
             ELSE IF n = 1 THEN ParseFail("expected only one address in url")
             ELSE [ok |-> TRUE,
                   u |-> TransportUrl(Libp2pScheme,
                                      <<Libp2pScheme, ":", "//">> \o m.stack[n].value,
                                      SubSeq(m.stack, 1, n - 1)),
                   cause |-> "nil"]

\* util.ParseUrl
ParseUrl(urlStr) ==
    LET p == URLParse(urlStr)
    IN  IF ~p.ok THEN ParseFail(p.cause)
        ELSE IF p.Scheme = "" THEN ParseFail("could not parse scheme")
        ELSE IF p.Scheme = Libp2pScheme THEN parseLibp2pUrl(urlStr)
        ELSE [ok |-> TRUE, u |-> TransportUrl(p.Scheme, urlStr, <<>>), cause |-> "nil"]

-----------------------------------------------------------------------------
(* Transfer.Host *)

Transfer(type, clientID, params, size) ==
    [Type |-> type, ClientID |-> clientID, Params |-> params, Size |-> size]

\* only the presence of a tag checked
TypeRecognizedAnyTag(type) == type # ""

TypeRecognized(type) == type = "http" \/ type = "libp2p"

UnrecognizedType == Err("UnsupportedTransferType", <<>>, "unrecognized transfer type")

ParamsError(cause) == Err("TransferParamsInvalid", <<>>, cause)

\* the message without the URL string
URLErrorNoString(urlStr, cause) == Err("TransferURLInvalid", <<>>, cause)

URLError(urlStr, cause) == Err("TransferURLInvalid", urlStr, cause)

\* the peer URL handed back with the resolver's error
ResolveHostPartial(u, urlStr) ==
    IF u.Scheme = Libp2pScheme
    THEN LET mahttp == ToURL(u.Multiaddr)
         IN  IF mahttp.err # NoErr
             THEN [host |-> u.Url, err |-> mahttp.err]
             ELSE [host |-> mahttp.url.Host, err |-> NoErr]
    ELSE LET httpUrl == URLParse(u.Url)
         IN  IF ~httpUrl.ok
             THEN [host |-> <<>>, err |-> URLError(urlStr, httpUrl.cause)]
             ELSE [host |-> httpUrl.Host, err |-> NoErr]

\* lines 179-195: the host of the parsed url u; urlStr is tInfo.URL
ResolveHost(u, urlStr) ==
    IF u.Scheme = Libp2pScheme
    THEN LET mahttp == ToURL(u.Multiaddr)
         IN  IF mahttp.err # NoErr
             THEN [host |-> <<>>, err |-> mahttp.err]
             ELSE [host |-> mahttp.url.Host, err |-> NoErr]
    ELSE LET httpUrl == URLParse(u.Url)
         IN  IF ~httpUrl.ok
             THEN [host |-> <<>>, err |-> URLError(urlStr, httpUrl.cause)]
             ELSE [host |-> httpUrl.Host, err |-> NoErr]

\* Host() run to completion on transfer tr
HostOf(tr) ==
    IF ~TypeRecognized(tr.Type) THEN [host |-> <<>>, err |-> UnrecognizedType]
    ELSE LET tInfo == Unmarshal(tr.Params)
         IN  IF ~tInfo.ok THEN [host |-> <<>>, err |-> ParamsError(tInfo.cause)]
             ELSE LET p == ParseUrl(tInfo.URL)
                  IN  IF ~p.ok THEN [host |-> <<>>, err |-> URLError(tInfo.URL, p.cause)]
                      ELSE ResolveHost(p.u, tInfo.URL)

-----------------------------------------------------------------------------
(* Inputs: address stacks *)

SeqsUpTo(S, n) == UNION {[1..k -> S] : k \in 0..n}

IP4Values == {<<"1.2.3.4">>}

IP6Values == {<<"2001:db8::1">>, <<"::ffff:1.2.3.4">>}

DNSNames == {<<"thing.com">>}

Zone == Comp(P_IP6ZONE, <<"eth0">>)

\* the leading network-layer entries: the host part, then tcp or udp or nothing
HostParts ==
    {<<Comp(P_IP4, v)>> : v \in IP4Values}
    \cup {<<Comp(P_IP6, v)>> : v \in IP6Values}
    \cup {<<Zone, Comp(P_IP6, v)>> : v \in IP6Values}
    \cup {<<Zone, Comp(P_IP4, v)>> : v \in IP4Values}
    \cup {<<Zone, Zone>>}
    \cup {<<Comp(code, v)>> : code \in {P_DNS, P_DNS4, P_DNS6}, v \in DNSNames}
    \cup {<<Comp(P_UNIX, <<"/", "tmp", "/", "sock">>)>>}
    \cup {<<>>}

Transports ==
    {<<>>} \cup {<<Comp(P_TCP, <<Itoa(n)>>)>> : n \in Ports} \cup {<<Comp(P_UDP, <<"8080">>)>>}

NetPrefixes == {h \o tr : h \in HostParts, tr \in Transports}

EscapedPath == <<"a", "%2F", "b">>

BadPath == <<"a", "%zz">>

MarkerComps ==
    {Comp(code, <<>>) : code \in {P_TLS, P_HTTP, P_HTTPS, P_WS, P_WSS}}
    \cup {Comp(P_HTTPATH, EscapedPath), Comp(P_HTTPATH, BadPath)}

Stacks == {pre \o m : pre \in NetPrefixes, m \in SeqsUpTo(MarkerComps, MaxMarkers)}

DnsTlsHttp ==
    <<Comp(P_DNS, <<"thing.com">>), Comp(P_TCP, <<"443">>), Comp(P_TLS, <<>>), Comp(P_HTTP, <<>>)>>

\* the stacks the concurrent callers of ToURL share
SharedStacks == {DnsTlsHttp, <<Comp(P_HTTP, <<>>)>>}

-----------------------------------------------------------------------------
(* Inputs: URL strings and transfers *)

\* conventional URLs, as records: scheme://[user@]host[:port]path
Authorities ==
    {[user |-> <<>>, host |-> <<"example.com">>],
     [user |-> <<>>, host |-> <<"example.com", ":", "8080">>],
     [user |-> <<"user", "@">>, host |-> <<"example.com", ":", "443">>],
     [user |-> <<>>, host |-> <<"[", "2001:db8::1", "]", ":", "8080">>],
     [user |-> <<>>, host |-> <<"1.2.3.4", ":", "443">>]}

URLPaths == {<<"/", "a", "/", "b">>, <<"/", "a", "%2F", "b", "?", "x=1", "&", "y=2">>}

ConvURLs ==
    {[scheme |-> sc, user |-> a.user, host |-> a.host, path |-> p] :
        sc \in {"http", "https", "HTTP"}, a \in Authorities, p \in URLPaths}

URLString(r) == <<r.scheme, ":", "//">> \o r.user \o r.host \o r.path

\* strings that are not a conventional URL with a host
OddURLs ==
    {<<>>,
     <<":", "//", "example.com">>,
     <<"example.com", "/", "a">>,
     <<"//", "example.com", "/", "a">>,
     <<"http", ":", "//", "example.com", ":", "abc", "/", "a">>,
     <<"http", ":", "//", "[", "2001:db8::1", "/", "a">>,
     <<"http", ":", "//", "example.com", "/", "a", "%zz">>,
     <<"1.2.3.4", ":", "443", "/", "a">>,
     <<"example.com", ":", "8080", "/", "a">>,
     <<"http", ":", "/", "a">>,
     <<"ftp", ":", "//", "example.com", "/", "a">>}

Peer == Comp(P_P2P, <<"QmPeer">>)

\* the address stacks written into libp2p URLs (the /p2p entry follows them)
LibStacks ==
    {<<Comp(P_IP4, <<"1.2.3.4">>), Comp(P_TCP, <<"8080">>), Comp(P_HTTP, <<>>)>>,
     DnsTlsHttp,
     <<Comp(P_IP6, <<"2001:db8::1">>), Comp(P_TCP, <<"8080">>), Comp(P_WS, <<>>)>>,
     <<Comp(P_IP6, <<"2001:db8::1">>), Comp(P_HTTPS, <<>>)>>,
     <<Comp(P_IP6, <<"::ffff:1.2.3.4">>), Comp(P_HTTP, <<>>)>>,
     <<Comp(P_DNS, <<"thing.com">>), Comp(P_HTTP, <<>>), Comp(P_HTTPATH, EscapedPath)>>,
     <<Comp(P_DNS, <<"thing.com">>), Comp(P_HTTP, <<>>), Comp(P_HTTPATH, BadPath)>>,
     <<Comp(P_HTTP, <<>>)>>,
     <<Comp(P_TCP, <<"443">>)>>,
     <<Zone, Zone, Comp(P_IP6, <<"2001:db8::1">>)>>,
     <<>>}

LibURLs ==
    {<<"libp2p", ":", "//">> \o MaString(st \o <<Peer>>) : st \in LibStacks}
    \cup {<<"libp2p", ":">> \o MaString(DnsTlsHttp \o <<Peer>>),
          <<"LIBP2P", ":", "//">> \o MaString(DnsTlsHttp \o <<Peer>>),
          <<"libp2p", ":", "//">> \o MaString(DnsTlsHttp),
          <<"libp2p", ":", "//", "/", "foo", "/", "p2p", "/", "QmPeer">>,
          <<"libp2p", ":", "//", "/", "ip4", "/", "thing.com", "/", "p2p", "/", "QmPeer">>}

HeaderSets == {<<>>, <<<<<<"Authorization">>, <<"Basic", "&", "x">>>>>>}

\* parameter bytes that are well-formed JSON without a URL member
NoURLParams ==
    {<<Punct("{"), Punct("}")>>,
     <<Punct("null")>>,
     <<Punct("{"), JStr(<<"Headers">>), Punct(":"), Punct("{"), JStr(<<"k">>), Punct(":"),
       JStr(<<"v">>), Punct("}"), Punct("}")>>,
     <<Punct("{"), JStr(<<"URL">>), Punct(":"), Punct("null"), Punct("}")>>}

\* parameter bytes json.Unmarshal rejects
BadParams ==
    {<<>>,
     <<Punct("{"), JStr(<<"URL">>)>>,
     <<Punct("{"), JStr(<<"URL">>), Punct(":"), JStr(<<"http", "\\x">>), Punct("}")>>,
     <<Punct("{"), JStr(<<"URL">>), Punct(":"), Punct("5"), Punct("}")>>,
     <<Punct("{"), Punct("}"), Punct("}")>>,
     <<Punct("5")>>}

\* well-formed parameters in another spelling than Marshal's
OtherParams ==
    {<<Punct("{"), JStr(<<"url">>), Punct(":"),
       JStr(<<"http", ":", "//", "example.com", "/", "a">>), Punct("}")>>,
     <<Punct("{"), JStr(<<"URL">>), Punct(":"), JStr(<<"ftp">>), Punct(","),
       JStr(<<"URL">>), Punct(":"),
       JStr(<<"https", ":", "//", "example.com", "/", "a">>), Punct("}")>>}

\* encoded parameter records: conventional URLs with each header set, the
\* other URL strings with no headers
ParamsSet ==
    {Marshal(URLString(r), h) : r \in ConvURLs, h \in HeaderSets}
    \cup {Marshal(u, <<>>) : u \in OddURLs \cup LibURLs}
    \cup NoURLParams \cup BadParams \cup OtherParams

LibParams == {Marshal(u, <<>>) : u \in LibURLs} \cup NoURLParams \cup BadParams

TransferTypes == {"http", "ftp"}

Transfers ==
    {Transfer(ty, "", p, 0) : ty \in TransferTypes, p \in ParamsSet}
    \cup {Transfer("libp2p", "", p, 0) : p \in LibParams}
    \cup {Transfer("http", "client-1", Marshal(URLString(r), h), 1024) :
            r \in ConvURLs, h \in HeaderSets}

\* the zero value of Transfer
ZeroTransfer == Transfer("", "", <<>>, 0)

-----------------------------------------------------------------------------
(* Callers of Host and ToURL *)

Callers == 1..NumCallers

LocInit ==
    [op |-> "", URL |-> <<>>, u |-> TransportUrl("", <<>>, <<>>),
     host |-> <<>>, url |-> NilURL, err |-> NoErr]

Returned(l, host, url, err) == [l EXCEPT !.host = host, !.url = url, !.err = err]

\* Host, lines 163-165: the type check
HostEnter(c) ==
    /\ pc[c] = "idle"
    /\ IF ~TypeRecognized(t.Type)
       THEN /\ pc' = [pc EXCEPT ![c] = "done"]
            /\ loc' = [loc EXCEPT ![c] =
                          Returned([LocInit EXCEPT !.op = "Host"], <<>>, NilURL, UnrecognizedType)]
       ELSE /\ pc' = [pc EXCEPT ![c] = "decode"]
            /\ loc' = [loc EXCEPT ![c] = [LocInit EXCEPT !.op = "Host"]]
    /\ UNCHANGED <<t, ma, deals, req, resp>>

\* a decoder that consumes the parameter bytes of the receiver
HostDecodeConsuming(c) ==
    /\ pc[c] = "decode"
    /\ LET tInfo == Unmarshal(t.Params)
       IN  IF ~tInfo.ok
           THEN /\ pc' = [pc EXCEPT ![c] = "done"]
                /\ loc' = [loc EXCEPT ![c] =
                              Returned(loc[c], <<>>, NilURL, ParamsError(tInfo.cause))]
           ELSE /\ pc' = [pc EXCEPT ![c] = "parse"]
                /\ loc' = [loc EXCEPT ![c].URL = tInfo.URL]
    /\ t' = [t EXCEPT !.Params = <<>>]
    /\ UNCHANGED <<ma, deals, req, resp>>

\* Host, lines 167-171: decode the parameters
HostDecode(c) ==
    /\ pc[c] = "decode"
    /\ LET tInfo == Unmarshal(t.Params)
       IN  IF ~tInfo.ok
           THEN /\ pc' = [pc EXCEPT ![c] = "done"]
                /\ loc' = [loc EXCEPT ![c] =
                              Returned(loc[c], <<>>, NilURL, ParamsError(tInfo.cause))]
           ELSE /\ pc' = [pc EXCEPT ![c] = "parse"]
                /\ loc' = [loc EXCEPT ![c].URL = tInfo.URL]
    /\ UNCHANGED <<t, ma, deals, req, resp>>

\* Host, lines 173-177: parse the url
HostParse(c) ==
    /\ pc[c] = "parse"
    /\ LET p == ParseUrl(loc[c].URL)
       IN  IF ~p.ok
           THEN /\ pc' = [pc EXCEPT ![c] = "done"]
                /\ loc' = [loc EXCEPT ![c] =
                              Returned(loc[c], <<>>, NilURL, URLError(loc[c].URL, p.cause))]
           ELSE /\ pc' = [pc EXCEPT ![c] = "resolve"]
                /\ loc' = [loc EXCEPT ![c].u = p.u]
    /\ UNCHANGED <<t, ma, deals, req, resp>>

\* Host, lines 179-195: the host of the multiaddr or of the http url
HostResolve(c) ==
    /\ pc[c] = "resolve"
    /\ LET r == ResolveHost(loc[c].u, loc[c].URL)
       IN  /\ pc' = [pc EXCEPT ![c] = "done"]
           /\ loc' = [loc EXCEPT ![c] = Returned(loc[c], r.host, NilURL, r.err)]
    /\ UNCHANGED <<t, ma, deals, req, resp>>

\* a call of ToURL on the shared address stack
CallToURL(c) ==
    /\ pc[c] = "idle"
    /\ LET r == ToURL(ma)
       IN  /\ pc' = [pc EXCEPT ![c] = "done"]
           /\ loc' = [loc EXCEPT ![c] =
                         Returned([LocInit EXCEPT !.op = "ToURL"], <<>>, r.url, r.err)]
    /\ UNCHANGED <<t, ma, deals, req, resp>>

\* the caller takes the result and is free to call again
Return(c) ==
    /\ pc[c] = "done"
    /\ pc' = [pc EXCEPT ![c] = "idle"]
    /\ loc' = [loc EXCEPT ![c] = LocInit]
    /\ UNCHANGED <<t, ma, deals, req, resp>>

-----------------------------------------------------------------------------
(* The deal-status query: DealStatusRequest -> DealStatusResponse *)

DealUUIDs == {"deal-1", "deal-2"}

UnknownUUIDs == {"deal-9"}

ClientAddrs == {"f1client", "f1other"}

Checkpoints == <<"Accepted", "Transferred", "Published">>

\* crypto.Signature over the deal id: who signed, what was signed; a
\* signature whose encoding is broken has signer ""
Signatures ==
    [signer : ClientAddrs \cup {""}, payload : DealUUIDs \cup UnknownUUIDs]

DealStatusRequest(uuid, sig) == [DealUUID |-> uuid, Signature |-> sig]

Requests == {DealStatusRequest(id, sig) : id \in DealUUIDs \cup UnknownUUIDs, sig \in Signatures}

NoRequest == DealStatusRequest("", [signer |-> "", payload |-> ""])

NoDealStatus == [isNil |-> TRUE, Error |-> "", Status |-> ""]

DealStatus(error, status) == [isNil |-> FALSE, Error |-> error, Status |-> status]

DealStatusResponse(uuid, error, status, offline, size, received) ==
    [DealUUID |-> uuid, Error |-> error, DealStatus |-> status, IsOffline |-> offline,
     TransferSize |-> size, NBytesReceived |-> received]

NoResponse == DealStatusResponse("", "", NoDealStatus, FALSE, 0, 0)

\* SignatureVerifier.VerifySignature(sig, addr, input)
VerifySignature(sig, addr, input) ==
    IF sig.signer = "" THEN [valid |-> FALSE, err |-> "malformed signature"]
    ELSE [valid |-> sig.signer = addr /\ sig.payload = input, err |-> ""]

errResp(r, reason) == DealStatusResponse(r.DealUUID, reason, NoDealStatus, FALSE, 0, 0)

\* the deal looked up and reported before the signature is looked at
getDealStatusLeaky(r) ==
    IF r.DealUUID \notin DOMAIN deals THEN errResp(r, "no storage deal found")
    ELSE LET deal == deals[r.DealUUID]
             v    == VerifySignature(r.Signature, deal.client, r.DealUUID)
         IN  DealStatusResponse(r.DealUUID,
                 IF v.err # "" \/ ~v.valid THEN "invalid signature" ELSE "",
                 DealStatus(deal.error, Checkpoints[deal.checkpoint]),
                 deal.offline, deal.size, deal.received)

\* the provider's answer to request r
getDealStatus(r) ==
    IF r.DealUUID \notin DOMAIN deals THEN errResp(r, "no storage deal found")
    ELSE LET deal == deals[r.DealUUID]
             v    == VerifySignature(r.Signature, deal.client, r.DealUUID)
         IN  IF v.err # "" \/ ~v.valid THEN errResp(r, "invalid signature")
             ELSE DealStatusResponse(r.DealUUID, "",
                      DealStatus(deal.error, Checkpoints[deal.checkpoint]),
                      deal.offline, deal.size, deal.received)

InitDeals ==
    [id \in DealUUIDs |->
        [client |-> IF id = "deal-1" THEN "f1client" ELSE "f1other", checkpoint |-> 1,
         error |-> "", offline |-> id = "deal-2", size |-> 1024, received |-> 0]]

\* a status request arrives
ReceiveRequest(r) ==
    /\ req = NoRequest
    /\ req' = r
    /\ UNCHANGED <<t, ma, pc, loc, deals, resp>>

\* the request is answered
HandleStatus ==
    /\ req # NoRequest
    /\ resp = NoResponse
    /\ resp' = getDealStatus(req)
    /\ UNCHANGED <<t, ma, pc, loc, deals, req>>

\* the response is sent; the next request can arrive
SendResponse ==
    /\ resp # NoResponse
    /\ req' = NoRequest
    /\ resp' = NoResponse
    /\ UNCHANGED <<t, ma, pc, loc, deals>>

\* the deal-state owner moves a deal to its next checkpoint
AdvanceDeal(id) ==
    /\ deals[id].checkpoint < Len(Checkpoints)
    /\ deals' = [deals EXCEPT ![id].checkpoint = @ + 1, ![id].received = deals[id].size]
    /\ UNCHANGED <<t, ma, pc, loc, req, resp>>

-----------------------------------------------------------------------------
(* Specifications *)

InitCallers ==
    /\ pc = [c \in Callers |-> "idle"]
    /\ loc = [c \in Callers |-> LocInit]

InitNoStatus ==
    /\ deals = InitDeals
    /\ req = NoRequest
    /\ resp = NoResponse

\* concurrent callers of Host and ToURL on one Transfer and one address stack
Init ==
    /\ t \in Transfers
    /\ ma \in SharedStacks
    /\ InitCallers
    /\ InitNoStatus

Next ==
    \E c \in Callers :
        \/ HostEnter(c)
        \/ HostDecode(c)
        \/ HostParse(c)
        \/ HostResolve(c)
        \/ CallToURL(c)
        \/ Return(c)

Spec == Init /\ [][Next]_vars

\* ToURL as a function of its argument: one caller, every address stack
InitResolver ==
    /\ t = ZeroTransfer
    /\ ma \in Stacks
    /\ InitCallers
    /\ InitNoStatus

NextResolver == CallToURL(1) \/ Return(1)

SpecResolver == InitResolver /\ [][NextResolver]_vars

\* the deal-status protocol
InitStatus ==
    /\ t = ZeroTransfer
    /\ ma = <<>>
    /\ InitCallers
    /\ InitNoStatus

NextStatus ==
    \/ \E r \in Requests : ReceiveRequest(r)
    \/ HandleStatus
    \/ SendResponse
    \/ \E id \in DealUUIDs : AdvanceDeal(id)

SpecStatus == InitStatus /\ [][NextStatus]_vars

-----------------------------------------------------------------------------
(* Properties *)

Has(stack, code) == \E i \in 1..Len(stack) : stack[i].code = code

DoneToURL(c) == pc[c] = "done" /\ loc[c].op = "ToURL"

DoneHost(c) == pc[c] = "done" /\ loc[c].op = "Host"

\* the scheme the precedence table gives an address stack
TableScheme(stack) ==
    CASE Has(stack, P_HTTPS)                      -> "https"
      [] Has(stack, P_HTTP) /\ Has(stack, P_TLS)  -> "https"
      [] Has(stack, P_HTTP)                       -> "http"
      [] Has(stack, P_WSS)                        -> "wss"
      [] Has(stack, P_WS) /\ Has(stack, P_TLS)    -> "wss"
      [] Has(stack, P_WS)                         -> "ws"
      [] OTHER                                    -> "http"

\* C1: whenever ToURL succeeds, the scheme is the one the precedence table
\* gives for the set of markers present (https; http+tls -> https; http;
\* wss; ws+tls -> wss; ws; none -> http), whatever the order of the entries.
C1_SchemePrecedence ==
    \A c \in Callers :
        DoneToURL(c) /\ loc[c].err = NoErr => loc[c].url.Scheme = TableScheme(ma)

C1_Witness ==
    /\ DoneToURL(1) /\ loc[1].err = NoErr
    /\ Has(ma, P_WS) /\ Has(ma, P_TLS) /\ ~Has(ma, P_HTTP) /\ ~Has(ma, P_HTTPS)
    /\ ma[Len(ma)].code = P_TLS
    /\ loc[1].url.Scheme = "wss"

\* the ":port" a stack's transport entry adds to the host
PortPart(stack) ==
    IF Len(stack) >= 2 /\ stack[2].code \in {P_TCP, P_UDP}
    THEN <<":">> \o stack[2].value
    ELSE <<>>

\* C2: whenever ToURL succeeds on a stack that starts with an IPv6 literal,
\* the host is "[" literal "]" followed by ":port" when a port is present
\* (IPv4-mapped literals and stacks with no port included); on a stack that
\* starts with an IPv4 literal or a DNS name the host is unbracketed.
C2_IPv6Bracketed ==
    \A c \in Callers :
        DoneToURL(c) /\ loc[c].err = NoErr /\ Len(ma) >= 1 =>
            /\ ma[1].code = P_IP6 =>
                   loc[c].url.Host = <<"[">> \o ma[1].value \o <<"]">> \o PortPart(ma)
            /\ ma[1].code \in {P_IP4, P_DNS, P_DNS4, P_DNS6} =>
                   loc[c].url.Host = ma[1].value \o PortPart(ma)

IsNotPath(comp) == comp.code # P_HTTPATH

WithoutPath(stack) == SelectSeq(stack, IsNotPath)

FirstPathValue(stack) ==
    stack[CHOOSE i \in 1..Len(stack) :
              stack[i].code = P_HTTPATH /\ \A j \in 1..(i - 1) : stack[j].code # P_HTTPATH].value

\* C6: a URL-escaped-path entry with invalid percent-encoding does not make
\* ToURL fail: the URL has an empty path and the scheme and host of the same
\* stack without the entry; a value that decodes gives its decoded path; no
\* entry gives an empty path.
C6_PathBestEffort ==
    \A c \in Callers :
        DoneToURL(c) =>
            LET base == ToURL(WithoutPath(ma))
            IN  /\ (loc[c].err = NoErr) = (base.err = NoErr)
                /\ loc[c].err = NoErr =>
                      /\ loc[c].url.Scheme = base.url.Scheme
                      /\ loc[c].url.Host = base.url.Host
                      /\ loc[c].url.Path =
                            IF ~Has(ma, P_HTTPATH) THEN <<>>
                            ELSE IF FirstPathValue(ma) = EscapedPath THEN <<"a", "/", "b">>
                            ELSE <<>>

C6_Witness ==
    /\ DoneToURL(1) /\ loc[1].err = NoErr
    /\ Has(ma, P_HTTPATH) /\ FirstPathValue(ma) = BadPath
    /\ Has(ma, P_WSS)
    /\ loc[1].url.Path = <<>> /\ loc[1].url.Scheme = "wss"

\* C3: Host on a Transfer whose Type is neither "http" nor "libp2p" fails
\* with UnsupportedTransferType and an empty host whatever Params holds, and
\* the call ends at the type check: it never reaches the decoding of Params.
C3_UnsupportedType ==
    \A c \in Callers :
        t.Type \notin {"http", "libp2p"} =>
            /\ pc[c] \in {"idle", "done"}
            /\ DoneHost(c) =>
                  /\ loc[c].err.class = "UnsupportedTransferType"
                  /\ loc[c].host = <<>>
                  /\ loc[c].URL = <<>>

C3_Witness ==
    /\ DoneHost(1)
    /\ t.Type = "ftp"
    /\ \E r \in ConvURLs : t.Params = Marshal(URLString(r), <<>>)
    /\ loc[1].err.class = "UnsupportedTransferType"

\* C4 as claimed: Host on a Type "http" Transfer whose Params is well-formed
\* JSON without a URL member fails with TransferParamsInvalid.
C4_NoURLIsParamsInvalid ==
    \A c \in Callers :
        DoneHost(c) /\ t.Type = "http" /\ t.Params \in NoURLParams =>
            loc[c].err.class = "TransferParamsInvalid"

\* C4 as amended: Host on a Type "http" Transfer whose Params is well-formed
\* JSON without a URL member decodes the parameters to an empty URL and
\* fails with TransferURLInvalid (carrying the empty URL string), with an
\* empty host.
C4_NoURLIsURLInvalid ==
    \A c \in Callers :
        DoneHost(c) /\ t.Type = "http" /\ t.Params \in NoURLParams =>
            /\ loc[c].err.class = "TransferURLInvalid"
            /\ loc[c].err.url = <<>>
            /\ loc[c].host = <<>>

C4_Witness ==
    /\ DoneHost(1)
    /\ t.Type = "http"
    /\ t.Params = <<Punct("{"), Punct("}")>>
    /\ loc[1].err.class = "TransferURLInvalid"

\* C5: Host on a Type "http" Transfer whose Params is the encoded record of
\* a conventional URL succeeds and returns the URL's host with its port; the
\* path, query, userinfo, headers, ClientID and Size make no difference.
C5_RoundTrip ==
    \A c \in Callers : \A r \in ConvURLs : \A h \in HeaderSets :
        DoneHost(c) /\ t.Type = "http" /\ t.Params = Marshal(URLString(r), h) =>
            /\ loc[c].err = NoErr
            /\ loc[c].host = r.host

C5_Witness ==
    /\ DoneHost(1)
    /\ t.ClientID = "client-1" /\ t.Size = 1024
    /\ \E r \in ConvURLs : \E h \in HeaderSets :
          /\ r.scheme = "HTTP" /\ r.user # <<>> /\ h # <<>> /\ Len(r.path) > 4
          /\ t.Params = Marshal(URLString(r), h)
    /\ loc[1].host = <<"example.com", ":", "443">>

\* C7: no step of any caller changes the Transfer or the address stack, and
\* every call that has returned holds the outcome of one isolated call on
\* them, whatever the other callers did in between.
C7_ReadOnlyDeterministic ==
    [][ /\ t' = t
        /\ ma' = ma
        /\ \A c \in Callers :
              pc'[c] = "done" =>
                  IF loc'[c].op = "Host"
                  THEN [host |-> loc'[c].host, err |-> loc'[c].err] = HostOf(t')
                  ELSE [url |-> loc'[c].url, err |-> loc'[c].err] = ToURL(ma') ]_vars

C7_Witness ==
    /\ DoneHost(1) /\ loc[1].err = NoErr /\ loc[1].host # <<>>
    /\ pc[2] = "parse"

\* C9 as claimed: once Type is recognized and Params has decoded, every
\* failure of Host is TransferURLInvalid carrying the decoded URL string and
\* the nested cause, the address resolver's failure included.
C9_AnyURLFailureIsURLInvalid ==
    \A c \in Callers :
        DoneHost(c) /\ t.Type \in {"http", "libp2p"} /\ Unmarshal(t.Params).ok
        /\ loc[c].err # NoErr =>
            /\ loc[c].err.class = "TransferURLInvalid"
            /\ loc[c].err.url = Unmarshal(t.Params).URL
            /\ loc[c].err.cause # "nil"

\* C9 as amended: once Type is recognized and Params has decoded, a failure
\* to parse the URL string (as either form) is TransferURLInvalid carrying
\* the decoded URL string and the nested cause; a failure of the address
\* resolver on a URL already recognized as a multi-protocol address is
\* returned as the resolver's own error, without the URL string.
C9_URLFailures ==
    \A c \in Callers :
        DoneHost(c) /\ t.Type \in {"http", "libp2p"} /\ Unmarshal(t.Params).ok
        /\ loc[c].err # NoErr =>
            LET urlStr == Unmarshal(t.Params).URL
                p      == ParseUrl(urlStr)
            IN  IF p.ok /\ p.u.Scheme = Libp2pScheme
                THEN /\ loc[c].err.class = "AddressResolutionError"
                     /\ loc[c].err.url = <<>>
                ELSE /\ loc[c].err.class = "TransferURLInvalid"
                     /\ loc[c].err.url = urlStr
                     /\ loc[c].err.cause # "nil"

C9_Witness ==
    /\ DoneHost(1)
    /\ loc[1].err.class = "AddressResolutionError"
    /\ DoneHost(2)
    /\ loc[2].err.class = "AddressResolutionError"

\* the class of the first step of Host that fails on transfer tr, "nil" when
\* none does
FirstFailure(tr) ==
    IF tr.Type \notin {"http", "libp2p"} THEN "UnsupportedTransferType"
    ELSE IF ~Unmarshal(tr.Params).ok THEN "TransferParamsInvalid"
    ELSE LET p == ParseUrl(Unmarshal(tr.Params).URL)
         IN  IF ~p.ok THEN "TransferURLInvalid"
             ELSE IF p.u.Scheme = Libp2pScheme
                  THEN (IF DialArgs(p.u.Multiaddr).err # NoErr
                        THEN "AddressResolutionError" ELSE "nil")
             ELSE IF ~URLParse(p.u.Url).ok THEN "TransferURLInvalid"
             ELSE "nil"

\* C10: Host returns the empty host with every error, the error is that of
\* the first failing step in the order type check, parameter decode, URL
\* parse, address resolution or standard URL parse, and ToURL returns no URL
\* when the dial target cannot be extracted.
C10_NoPartialResult ==
    \A c \in Callers :
        /\ DoneHost(c) =>
              /\ loc[c].err.class = FirstFailure(t)
              /\ loc[c].err # NoErr => loc[c].host = <<>>
        /\ DoneToURL(c) =>
              /\ (loc[c].err # NoErr) = (DialArgs(ma).err # NoErr)
              /\ loc[c].err # NoErr => loc[c].url.isNil

C10_Witness ==
    /\ DoneHost(1) /\ loc[1].err.class = "TransferParamsInvalid" /\ loc[1].host = <<>>
    /\ DoneToURL(2) /\ loc[2].err # NoErr /\ loc[2].url.isNil

\* does the request carry the signature of the deal's client over the deal id
Authenticated(r) ==
    /\ r.DealUUID \in DOMAIN deals
    /\ r.Signature.signer = deals[r.DealUUID].client
    /\ r.Signature.payload = r.DealUUID

\* C8: the response to a request whose signature does not verify against the
\* deal's client has a non-empty Error and no DealStatus; a DealStatus is
\* present only in responses to requests whose signature verified.
C8_NoStatusWithoutSignature ==
    resp # NoResponse =>
        /\ ~Authenticated(req) => resp.Error # "" /\ resp.DealStatus.isNil
        /\ ~resp.DealStatus.isNil => Authenticated(req)

C8_Witness ==
    /\ resp # NoResponse
    /\ req.DealUUID = "deal-1"
    /\ req.Signature = [signer |-> "f1other", payload |-> "deal-1"]
    /\ deals["deal-1"].checkpoint = 3
    /\ resp.Error # "" /\ resp.DealStatus.isNil

=============================================================================
